---- MODULE Spec2Model ----
(***************************************************************************)
(* voxpop: the key / cached / fetching decorators (src/src/decorators.js), *)
(* the default action creators (src/src/action-creators.js) and the        *)
(* reducers (src/src/reducers.js), run against a store.                    *)
(*                                                                         *)
(* A run composes one pipeline of decorators around an operation, then     *)
(* makes calls to the composed function.  JavaScript is single threaded:   *)
(* the synchronous part of a call (the Promise executor) is one step, and  *)
(* every promise reaction (a then/catch callback) is one later step.       *)
(*                                                                         *)
(* The store is the one the caller hands in as (dispatch, getState):       *)
(*   "mock"  - the store of the repository's tests: dispatch is a          *)
(*             jest.fn() that records the event, getState returns a state  *)
(*             the test prepared and that never changes;                   *)
(*   "redux" - dispatch hands the event to the root reducer of             *)
(*             reducers.js and getState returns the reduced state; a       *)
(*             reducer that throws makes dispatch throw and leaves the     *)
(*             state as it was.                                            *)
(***************************************************************************)
EXTENDS Integers, Sequences, FiniteSets, TLC

\* ------------------------------------------------------------------ bounds
MaxCalls == 2
MaxTime == 3
MaxEvents == 3

Keys == {"k1", "k2"}
Args == {"a1", "a2"}
Values == {"hotdogs"}
Errors == {"error"}
TTLs == {-1, 0, 1}
Pipelines == { <<"key", "cached">>, <<"key", "fetching">>, <<"key", "cached", "fetching">> }
CallIds == 1..MaxCalls

Undefined == "undefined"
TypeError == "TypeError"

\* ------------------------------------------------------- action-types.js
CACHE_SET == "CACHE_SET"
BEGIN_REQUEST == "BEGIN_REQUEST"
END_REQUEST == "END_REQUEST"
ERROR_REQUEST == "ERROR_REQUEST"
RECEIVE == "RECEIVE"

\* ------------------------------------------------------------- promises
\* A promise is pending, or settled with a value or a failure reason.
Pending == [st |-> "pending", val |-> Undefined]
NoPromise == [st |-> "none", val |-> Undefined]
Resolved(v) == [st |-> "resolved", val |-> v]
Rejected(e) == [st |-> "rejected", val |-> e]
Settled(p) == p.st \in {"resolved", "rejected"}

\* A handle names a promise object: the request promise a deduplicated call
\* started (src "req", id the call), or the promise a test put into the
\* state beforehand (src "pre").
NoHandle == [src |-> "none", id |-> 0]
ReqHandle(c) == [src |-> "req", id |-> c]
PreHandle == [src |-> "pre", id |-> 0]

\* ----------------------------------------------------- action creators
\* An event as the reducers see it: hasPayload / hasMeta tell whether the
\* object has a payload / meta property; key is payload.key of a cache-set
\* and meta.key of the request events; by is the call that dispatched it.
Event(type, hasPayload, hasMeta, k, ts, h, val, c) ==
    [type |-> type, hasPayload |-> hasPayload, hasMeta |-> hasMeta, key |-> k,
     ts |-> ts, h |-> h, val |-> val, by |-> c]

cacheSetAction(k, timestamp, c) ==
    Event(CACHE_SET, TRUE, FALSE, k, timestamp, NoHandle, Undefined, c)
beginAction(k, promise, c) ==
    Event(BEGIN_REQUEST, TRUE, TRUE, k, 0, promise, Undefined, c)
endAction(k, c) ==
    Event(END_REQUEST, FALSE, TRUE, k, 0, NoHandle, Undefined, c)
errorAction(k, error, c) ==
    Event(ERROR_REQUEST, FALSE, TRUE, k, 0, NoHandle, error, c)
\* receive: the caller's PayloadActionCreator, (payload) => {type, payload}
receive(result, c) ==
    Event(RECEIVE, TRUE, FALSE, Undefined, 0, NoHandle, result, c)

\* ------------------------------------------------------------ store state
\* cache[k]: nothing, a number (what cacheReducer writes) or an object with
\* a timestamp property (what the tests prepare).
NoEntry == [shape |-> "none", ts |-> 0]
NumberEntry(t) == [shape |-> "number", ts |-> t]
ObjectEntry(t) == [shape |-> "object", ts |-> t]
\* requestCache[k] / fetching[k]: nothing, a promise (what fetchingReducer
\* writes) or an object with an inflight property.
NoRecord == [shape |-> "none", h |-> NoHandle]
PromiseRecord(h) == [shape |-> "promise", h |-> h]
ObjectRecord(h) == [shape |-> "object", h |-> h]

EmptyState ==
    [error |-> [k \in Keys |-> Undefined],
     cache |-> [k \in Keys |-> NoEntry],
     fetching |-> [k \in Keys |-> NoRecord],
     requestCache |-> [k \in Keys |-> NoRecord]]

\* ---------------------------------------------------------------- reducers
\* const { type, payload, meta: { key } } = action  throws without meta
fetchingReducerThrows(action) == ~action.hasMeta
fetchingReducer(slice, action) ==
    CASE action.type = BEGIN_REQUEST ->
           [slice EXCEPT ![action.key] = PromiseRecord(action.h)]
      [] action.type = END_REQUEST ->
           [slice EXCEPT ![action.key] = NoRecord]
      [] OTHER -> slice

\* a cache reducer that takes a timestamp from every event it is handed
cacheReducerOfAnyEvent(slice, action) ==
    [slice EXCEPT ![action.key] = NumberEntry(action.ts)]
\* const { type, payload: { key, timestamp } } = action  throws without payload
cacheReducerThrows(action) == ~action.hasPayload
cacheReducer(slice, action) ==
    IF action.type = CACHE_SET
    THEN [slice EXCEPT ![action.key] = NumberEntry(action.ts)]
    ELSE slice

\* an error reducer that forgets the error of a key when a request begins
errorReducerClearedOnBegin(slice, action) ==
    CASE action.type = ERROR_REQUEST -> [slice EXCEPT ![action.key] = action.val]
      [] action.type = BEGIN_REQUEST -> [slice EXCEPT ![action.key] = Undefined]
      [] OTHER -> slice
\* const { type, error, meta: { key } } = action  throws without meta
errorReducerThrows(action) == ~action.hasMeta
errorReducer(slice, action) ==
    IF action.type = ERROR_REQUEST
    THEN [slice EXCEPT ![action.key] = action.val]
    ELSE slice

\* combineReducers({ error, cache, fetching })
rootReducerThrows(action) ==
    errorReducerThrows(action) \/ cacheReducerThrows(action) \/ fetchingReducerThrows(action)
rootReducer(s, action) ==
    [s EXCEPT !.error = errorReducer(s.error, action),
              !.cache = cacheReducer(s.cache, action),
              !.fetching = fetchingReducer(s.fetching, action)]

\* --------------------------------------------------------------- selectors
\* a selector that takes cache[keyVal] itself for the timestamp
cacheTtlSelectorOfNumber(s, keyVal) ==
    IF s.cache[keyVal].shape = "number" THEN s.cache[keyVal].ts ELSE 0
\* get(state, ['cache', keyVal, 'timestamp'], 0)
cacheTtlSelector(s, keyVal) ==
    IF s.cache[keyVal].shape = "object" THEN s.cache[keyVal].ts ELSE 0
\* a selector that returns an in-flight promise recorded under any key
selectInflightOfAnyKey(s, keyValue) ==
    IF \E k \in Keys : s.requestCache[k].shape = "object"
    THEN s.requestCache[CHOOSE k \in Keys : s.requestCache[k].shape = "object"].h
    ELSE NoHandle
\* get(state, ['requestCache', keyValue, 'inflight'])
selectInflight(s, keyValue) ==
    IF s.requestCache[keyValue].shape = "object" THEN s.requestCache[keyValue].h ELSE NoHandle

\* expired with the boundary on the other side: an age equal to ttl is stale
expiredAtBoundary(time, ttl, now) ==
    IF time # 0 THEN (now - time) >= ttl ELSE TRUE
\* expired without the test for a missing time: the default 0 of the selector
\* is taken for a timestamp
expiredOfAnyTime(time, ttl, now) == (now - time) > ttl
\* expired(time, ttl), with now the value of new Date().getTime()
expired(time, ttl, now) ==
    IF time # 0 THEN (now - time) > ttl ELSE TRUE


\* ------------------------------------------------------------------- state
VARIABLES
    cfg,      \* what the run was set up with: store, pipeline, ttl, opKEY
    fn,       \* the function the pipeline has built so far
    stage,    \* how many stages of the pipeline have been applied
    built,    \* "building", "ok", or "threw" when a stage threw at wrap time
    state,    \* what getState() returns
    events,   \* per key, every event handed to dispatch for it, in order
    now,      \* new Date().getTime()
    calls,    \* per call of the composed function: its promises and callbacks
    nCalls,   \* calls made so far
    prom      \* the promise a test put into the state beforehand

vars == <<cfg, fn, stage, built, state, events, now, calls, nCalls, prom>>

\* The KEY property of a function: "none", the key function handed to key()
\* ("keyFn"), or one the operation carried before it entered the pipeline
\* ("native").  The two map the arguments to different keys.
ApplyKey(kf, a) ==
    IF kf = "keyFn" THEN (IF a = "a1" THEN "k1" ELSE "k2")
    ELSE (IF a = "a1" THEN "k2" ELSE "k1")

\* A function value: the decorator closures around the operation, innermost
\* first, each with the KEY of the function it wrapped, and its own KEY.
Function(layers, KEY) == [layers |-> layers, KEY |-> KEY]
Layer(kind, KEY) == [kind |-> kind, KEY |-> KEY]

\* key(keyFn)(wrappedFunc): sets KEY on reWrapped and returns wrappedFunc
key(keyFn, wrappedFunc) == wrappedFunc

\* cached(receive, opts)(wrappedFunc)
cachedThrowsNever(wrappedFunc) == FALSE
cachedThrows(wrappedFunc) == wrappedFunc.KEY = "none"
cached(wrappedFunc) ==
    key(wrappedFunc.KEY,
        Function(Append(wrappedFunc.layers, Layer("cached", wrappedFunc.KEY)), "none"))

\* fetching(opts)(func)
fetchingThrows(func) == func.KEY = "none"
fetching(func) ==
    key(func.KEY, Function(Append(func.layers, Layer("fetching", func.KEY)), "none"))

\* One call of the composed function.  op: the promise of the underlying
\* operation; gate / gatePc / gerr: the promise cached returned, where its
\* callbacks stand and what its then callback threw; out / dedPc / derr: the
\* same for fetching; target: the in-flight promise the call was resolved
\* with.  entry and record keep what the store held for the key when the
\* call was made.
NoCall ==
    [arg |-> Undefined, key |-> Undefined, gkey |-> Undefined, tcall |-> 0,
     op |-> NoPromise, gate |-> NoPromise, gatePc |-> "none", gerr |-> Undefined,
     out |-> NoPromise, dedPc |-> "none", derr |-> Undefined, target |-> NoHandle,
     entry |-> NoEntry, record |-> NoRecord]

\* The states the tests prepare: at most one key ("k1") has a cache entry
\* stamped with the time of the set-up, and at most one has an in-flight
\* record, holding the promise itself or an object with an inflight property.
MockStates ==
    { [EmptyState EXCEPT !.cache["k1"] = c, !.requestCache["k1"] = r] :
        c \in {NoEntry, ObjectEntry(1)},
        r \in {NoRecord, PromiseRecord(PreHandle), ObjectRecord(PreHandle)} }

\* ttl is an option of cached: a pipeline without cached has none (the model
\* then carries the value 1 that nothing reads), and the tests prepare the
\* part of the state their pipeline reads.
HasStage(pipeline, kind) == \E i \in 1..Len(pipeline) : pipeline[i] = kind
Configs ==
    { c \in [store : {"mock", "redux"}, pipeline : Pipelines, ttl : TTLs,
              opKEY : {"none", "native"}] :
        HasStage(c.pipeline, "cached") \/ c.ttl = 1 }
InitialStates(c) ==
    IF c.store = "redux" THEN {EmptyState}
    ELSE { s \in MockStates :
             /\ HasStage(c.pipeline, "cached") \/ s.cache = EmptyState.cache
             /\ HasStage(c.pipeline, "fetching") \/ s.requestCache = EmptyState.requestCache }

Init ==
    /\ cfg \in Configs
    /\ fn = Function(<< >>, cfg.opKEY)
    /\ stage = 0
    /\ built = "building"
    /\ state \in InitialStates(cfg)
    /\ prom = IF \E k \in Keys : state.requestCache[k].shape # "none"
              THEN Pending ELSE NoPromise
    /\ events = [k \in Keys |-> << >>]
    /\ now = 1
    /\ calls = [c \in CallIds |-> NoCall]
    /\ nCalls = 0

\* ----------------------------------------------------------------- wrap time
NextStage == cfg.pipeline[stage + 1]
Composing(kind) ==
    /\ built = "building"
    /\ stage < Len(cfg.pipeline)
    /\ NextStage = kind

Finish(f, threw) ==
    /\ stage' = stage + 1
    /\ fn' = IF threw THEN fn ELSE f
    /\ built' = IF threw THEN "threw"
                ELSE IF stage + 1 = Len(cfg.pipeline) THEN "ok" ELSE "building"
    /\ UNCHANGED <<cfg, state, events, now, calls, nCalls, prom>>

WrapKey == Composing("key") /\ Finish(key("keyFn", fn), FALSE)
WrapCached == Composing("cached") /\ Finish(cached(fn), cachedThrows(fn))
WrapFetching == Composing("fetching") /\ Finish(fetching(fn), fetchingThrows(fn))

\* --------------------------------------------------------------------- time
Tick ==
    /\ now < MaxTime
    /\ now' = now + 1
    /\ UNCHANGED <<cfg, fn, stage, built, state, events, calls, nCalls, prom>>

\* ----------------------------------------------------------------- dispatch
\* The record of what was handed to dispatch (jest.fn().mock.calls), kept per
\* key; a receive event carries no key and is kept under the key of its call.
Log(evs, k, ev) == [evs EXCEPT ![k] = Append(@, ev)]

dispatchThrows(action) == cfg.store = "redux" /\ rootReducerThrows(action)
dispatch(s, action) ==
    IF cfg.store = "redux" /\ ~rootReducerThrows(action) THEN rootReducer(s, action) ELSE s


\* ------------------------------------------------------------ the call itself
Top == fn.layers[Len(fn.layers)]
CanCall(kind) ==
    /\ built = "ok"
    /\ nCalls < MaxCalls
    /\ Top.kind = kind

\* The function cached() returns, called with (dispatch, getState, ...restArgs):
\* the executor of its promise.  KEY is wrappedFunc.KEY.
cachedCall(r, restArgs, KEY) ==
    LET keyVal == ApplyKey(KEY, restArgs)
        r1 == [r EXCEPT !.gkey = keyVal, !.entry = state.cache[keyVal]]
    IN IF ~expired(cacheTtlSelector(state, keyVal), cfg.ttl, now)
       THEN [r1 EXCEPT !.gate = Resolved(Undefined), !.gatePc = "done"]
       ELSE [r1 EXCEPT !.op = Pending, !.gate = Pending, !.gatePc = "wait"]

\* A call of the gated operation (the pipeline ends with cached).
CallCached(a) ==
    /\ CanCall("cached")
    /\ LET c == nCalls + 1
           r == cachedCall([NoCall EXCEPT !.arg = a, !.tcall = now], a, Top.KEY)
       IN /\ calls' = [calls EXCEPT ![c] = [r EXCEPT !.key = r.gkey]]
          /\ nCalls' = c
    /\ UNCHANGED <<cfg, fn, stage, built, state, events, now, prom>>

\* func.apply(this, [dispatch, getState].concat(args)): func is the gated
\* operation when cached was applied before fetching, else the operation.
funcCall(r, args) ==
    IF Len(fn.layers) > 1
    THEN cachedCall(r, args, fn.layers[1].KEY)
    ELSE [r EXCEPT !.op = Pending]

\* The executor of fetching with the dispatch of the begin event left to a
\* later turn of the event loop.
CallFetchingBeginDeferred(a) ==
    /\ CanCall("fetching")
    /\ LET c == nCalls + 1
           keyValue == ApplyKey(Top.KEY, a)
           inflightRequest == selectInflight(state, keyValue)
           r0 == [NoCall EXCEPT !.arg = a, !.tcall = now, !.key = keyValue,
                                !.record = state.requestCache[keyValue]]
       IN /\ nCalls' = c
          /\ calls' = [calls EXCEPT ![c] =
                 IF inflightRequest # NoHandle
                 THEN [r0 EXCEPT !.out = Pending, !.dedPc = "attached",
                                 !.target = inflightRequest]
                 ELSE [funcCall(r0, a) EXCEPT !.out = Pending, !.dedPc = "wait"]]
    /\ UNCHANGED <<cfg, fn, stage, built, state, events, now, prom>>

\* A call of the deduplicated operation (the pipeline ends with fetching): the
\* executor of its promise, up to the registration of the then/catch callbacks.
CallFetching(a) ==
    /\ CanCall("fetching")
    /\ LET c == nCalls + 1
           keyValue == ApplyKey(Top.KEY, a)
           inflightRequest == selectInflight(state, keyValue)
           r0 == [NoCall EXCEPT !.arg = a, !.tcall = now, !.key = keyValue,
                                !.record = state.requestCache[keyValue]]
           begin == beginAction(keyValue, ReqHandle(c), c)
       IN /\ nCalls' = c
          /\ IF inflightRequest # NoHandle
             THEN /\ calls' = [calls EXCEPT ![c] =
                         [r0 EXCEPT !.out = Pending, !.dedPc = "attached",
                                    !.target = inflightRequest]]
                  /\ UNCHANGED <<state, events>>
             ELSE /\ events' = Log(events, keyValue, begin)
                  /\ state' = dispatch(state, begin)
                  /\ calls' = [calls EXCEPT ![c] =
                         IF dispatchThrows(begin)
                         THEN [funcCall(r0, a) EXCEPT !.out = Rejected(TypeError),
                                                      !.dedPc = "done"]
                         ELSE [funcCall(r0, a) EXCEPT !.out = Pending, !.dedPc = "wait"]]
    /\ UNCHANGED <<cfg, fn, stage, built, now, prom>>

\* ------------------------------------------------ the underlying operation
OpResolve(c, v) ==
    /\ calls[c].op = Pending
    /\ calls' = [calls EXCEPT ![c].op = Resolved(v)]
    /\ UNCHANGED <<cfg, fn, stage, built, state, events, now, nCalls, prom>>

OpReject(c, e) ==
    /\ calls[c].op = Pending
    /\ calls' = [calls EXCEPT ![c].op = Rejected(e)]
    /\ UNCHANGED <<cfg, fn, stage, built, state, events, now, nCalls, prom>>

\* The promise the test put into the state settles.
PromSettle(p) ==
    /\ prom = Pending
    /\ prom' = p
    /\ UNCHANGED <<cfg, fn, stage, built, state, events, now, calls, nCalls>>

\* --------------------------------------------------- callbacks of cached
\* resolve(): what the then callback of cached settles its promise with
cachedResultPassedOn(result) == result
cachedResult(result) == Undefined

\* reject(error): what a catch callback settles its promise with
rejectWrapped(error) == Rejected(TypeError)
reject(error) == Rejected(error)

\* .then((result) => { dispatch(receive(result));
\*                     dispatch(cacheSet(keyVal, new Date().getTime())); resolve(); })
CachedThen(c) ==
    /\ calls[c].gatePc = "wait"
    /\ calls[c].op.st = "resolved"
    /\ LET r == calls[c]
           ev1 == receive(r.op.val, c)
           ev2 == cacheSetAction(r.gkey, now, c)
           s1 == dispatch(state, ev1)
       IN IF dispatchThrows(ev1)
          THEN /\ events' = Log(events, r.gkey, ev1)
               /\ state' = state
               /\ calls' = [calls EXCEPT ![c].gatePc = "threw", ![c].gerr = TypeError]
          ELSE /\ events' = Log(Log(events, r.gkey, ev1), r.gkey, ev2)
               /\ state' = dispatch(s1, ev2)
               /\ calls' = IF dispatchThrows(ev2)
                           THEN [calls EXCEPT ![c].gatePc = "threw", ![c].gerr = TypeError]
                           ELSE [calls EXCEPT ![c].gatePc = "done",
                                              ![c].gate = Resolved(cachedResult(r.op.val))]
    /\ UNCHANGED <<cfg, fn, stage, built, now, nCalls, prom>>

\* a catch callback that calls the operation again when it rejected
CachedCatchRetrying(c) ==
    /\ \/ calls[c].gatePc = "wait" /\ calls[c].op.st = "rejected"
       \/ calls[c].gatePc = "threw"
    /\ calls' = IF calls[c].gatePc = "threw"
                THEN [calls EXCEPT ![c].gatePc = "done", ![c].gate = reject(calls[c].gerr)]
                ELSE [calls EXCEPT ![c].op = Pending]
    /\ UNCHANGED <<cfg, fn, stage, built, state, events, now, nCalls, prom>>

\* .catch(error => reject(error)): the operation rejected, or the then
\* callback threw.
CachedCatch(c) ==
    /\ \/ calls[c].gatePc = "wait" /\ calls[c].op.st = "rejected"
       \/ calls[c].gatePc = "threw"
    /\ LET error == IF calls[c].gatePc = "threw" THEN calls[c].gerr ELSE calls[c].op.val
       IN calls' = [calls EXCEPT ![c].gatePc = "done", ![c].gate = reject(error)]
    /\ UNCHANGED <<cfg, fn, stage, built, state, events, now, nCalls, prom>>

\* -------------------------------------------------- callbacks of fetching
\* request: what func returned to the call that started it
Request(c) == IF Len(fn.layers) > 1 THEN calls[c].gate ELSE calls[c].op
PromiseOf(h) == IF h.src = "pre" THEN prom ELSE Request(h.id)

\* request.then((result) => { dispatch(endRequestAction(keyValue)); resolve(result); })
FetchingThen(c) ==
    /\ calls[c].dedPc = "wait"
    /\ Request(c).st = "resolved"
    /\ LET ev == endAction(calls[c].key, c)
       IN /\ events' = Log(events, calls[c].key, ev)
          /\ state' = dispatch(state, ev)
          /\ calls' = IF dispatchThrows(ev)
                      THEN [calls EXCEPT ![c].dedPc = "threw", ![c].derr = TypeError]
                      ELSE [calls EXCEPT ![c].dedPc = "done",
                                         ![c].out = Resolved(Request(c).val)]
    /\ UNCHANGED <<cfg, fn, stage, built, now, nCalls, prom>>

\* .catch((error) => { dispatch(errorRequestAction(keyValue, error)); reject(error); })
\* When this dispatch throws, the callback ends there and nothing settles
\* the promise of the call.
FetchingCatch(c) ==
    /\ \/ calls[c].dedPc = "wait" /\ Request(c).st = "rejected"
       \/ calls[c].dedPc = "threw"
    /\ LET error == IF calls[c].dedPc = "threw" THEN calls[c].derr ELSE Request(c).val
           ev == errorAction(calls[c].key, error, c)
       IN /\ events' = Log(events, calls[c].key, ev)
          /\ state' = dispatch(state, ev)
          /\ calls' = IF dispatchThrows(ev)
                      THEN [calls EXCEPT ![c].dedPc = "dead"]
                      ELSE [calls EXCEPT ![c].dedPc = "done", ![c].out = reject(error)]
    /\ UNCHANGED <<cfg, fn, stage, built, now, nCalls, prom>>

\* resolve(inflightRequest): the promise of the call follows the in-flight one
FetchingAttached(c) ==
    /\ calls[c].dedPc = "attached"
    /\ Settled(PromiseOf(calls[c].target))
    /\ calls' = [calls EXCEPT ![c].dedPc = "done", ![c].out = PromiseOf(calls[c].target)]
    /\ UNCHANGED <<cfg, fn, stage, built, state, events, now, nCalls, prom>>

\* --------------------------------------------------------------------- spec
Next ==
    \/ WrapKey
    \/ WrapCached
    \/ WrapFetching
    \/ Tick
    \/ \E a \in Args : CallCached(a)
    \/ \E a \in Args : CallFetching(a)
    \/ \E c \in CallIds, v \in Values : OpResolve(c, v)
    \/ \E c \in CallIds, e \in Errors : OpReject(c, e)
    \/ \E p \in {Resolved("bar"), Rejected("error")} : PromSettle(p)
    \/ \E c \in CallIds : CachedThen(c)
    \/ \E c \in CallIds : CachedCatch(c)
    \/ \E c \in CallIds : FetchingThen(c)
    \/ \E c \in CallIds : FetchingCatch(c)
    \/ \E c \in CallIds : FetchingAttached(c)

Spec == Init /\ [][Next]_vars

\* ------------------------------------------------ the reducers on their own
\* The exports of reducers.js fed with the events of action-creators.js, as a
\* store built from them receives them: the combined reducer, and each of the
\* three reducers as the reducer of its slice.  A reducer that throws on an
\* event records nothing.  events is the list of the events recorded.
StoreActions ==
    { cacheSetAction(k, t, 0) : k \in Keys, t \in 1..MaxTime }
      \cup { beginAction(k, ReqHandle(c), 0) : k \in Keys, c \in CallIds }
      \cup { endAction(k, 0) : k \in Keys }
      \cup { errorAction(k, e, 0) : k \in Keys, e \in Errors \cup {TypeError} }

ReducerConfig ==
    [store |-> "redux", pipeline |-> <<"key", "cached">>, ttl |-> 1, opKEY |-> "native"]

InitReducers ==
    /\ cfg = ReducerConfig
    /\ fn = Function(<< >>, cfg.opKEY)
    /\ stage = 0
    /\ built = "building"
    /\ state = EmptyState
    /\ prom = NoPromise
    /\ events = [k \in Keys |-> << >>]
    /\ now = 1
    /\ calls = [c \in CallIds |-> NoCall]
    /\ nCalls = 0

Recordable(action) ==
    /\ action \in StoreActions
    /\ Len(events["k1"]) + Len(events["k2"]) < MaxEvents
Record(action) ==
    /\ events' = Log(events, action.key, action)
    /\ UNCHANGED <<cfg, fn, stage, built, now, calls, nCalls, prom>>

ApplyRootReducer(action) ==
    /\ Recordable(action)
    /\ ~rootReducerThrows(action)
    /\ state' = rootReducer(state, action)
    /\ Record(action)

ApplyCacheReducer(action) ==
    /\ Recordable(action)
    /\ ~cacheReducerThrows(action)
    /\ state' = [state EXCEPT !.cache = cacheReducer(state.cache, action)]
    /\ Record(action)

ApplyFetchingReducer(action) ==
    /\ Recordable(action)
    /\ ~fetchingReducerThrows(action)
    /\ state' = [state EXCEPT !.fetching = fetchingReducer(state.fetching, action)]
    /\ Record(action)

ApplyErrorReducer(action) ==
    /\ Recordable(action)
    /\ ~errorReducerThrows(action)
    /\ state' = [state EXCEPT !.error = errorReducer(state.error, action)]
    /\ Record(action)

NextReducers ==
    \/ \E action \in StoreActions : ApplyRootReducer(action)
    \/ \E action \in StoreActions : ApplyCacheReducer(action)
    \/ \E action \in StoreActions : ApplyFetchingReducer(action)
    \/ \E action \in StoreActions : ApplyErrorReducer(action)

SpecReducers == InitReducers /\ [][NextReducers]_vars


\* =================================================================== claims
Made == 1..nCalls
Gated(c) == c \in Made /\ calls[c].gatePc # "none"
Deduplicated(c) == c \in Made /\ calls[c].dedPc # "none"
Initiator(c) == Deduplicated(c) /\ calls[c].dedPc # "attached" /\ calls[c].target = NoHandle
IsDedupe == built = "ok" /\ Top.kind = "fetching"
\* the callbacks fetching registered for call c have run to their end
CallbacksRan(c) == calls[c].dedPc \in {"done", "dead"}

\* the events of a type that call c handed to dispatch for key k
EventsBy(c, k, type) ==
    { i \in 1..Len(events[k]) : events[k][i].by = c /\ events[k][i].type = type }
AnyEventBy(c) ==
    \E k \in Keys : \E i \in 1..Len(events[k]) : events[k][i].by = c

\* executions of the underlying operation for k that started and have not settled
Outstanding(k) == { c \in Made : calls[c].key = k /\ calls[c].op = Pending }

\* C1: with the events recorded by the reducers of reducers.js and read back
\* by the in-flight selector, at most one execution of the underlying
\* operation is outstanding for every key at any instant.
C1_AtMostOneOutstanding ==
    (IsDedupe /\ cfg.store = "redux") =>
        \A k \in Keys : Cardinality(Outstanding(k)) <= 1

\* C2: a call of the deduplicated operation for k made while an execution a
\* first call started for k is outstanding invokes nothing and emits no
\* event, so that one invocation, one begin and one end-or-error remain.
C2_SecondCallIsSilent ==
    [][ (/\ IsDedupe
         /\ cfg.store = "redux"
         /\ nCalls' = nCalls + 1
         /\ Outstanding(calls'[nCalls'].key) # {})
        => (calls'[nCalls'].op = NoPromise /\ events' = events) ]_vars

\* C3: every caller attached to an execution, the initiator as well as a
\* caller deduplicated onto it, settles as the execution settles: with its
\* value when it resolves, with exactly its reason when it rejects.
C3_SettlesAsExecution ==
    \A c \in Made :
        /\ (Initiator(c) /\ CallbacksRan(c) /\ Settled(Request(c)))
              => calls[c].out = Request(c)
        /\ (Deduplicated(c) /\ ~Initiator(c) /\ CallbacksRan(c))
              => calls[c].out = PromiseOf(calls[c].target)

\* the timestamp the store holds for the key of call c, when the call was made
Recorded(c) == calls[c].entry.shape # "none"
AgeAtCall(c) == calls[c].tcall - calls[c].entry.ts
WithinTtl(c) == Recorded(c) /\ 0 <= AgeAtCall(c) /\ AgeAtCall(c) <= cfg.ttl

\* C4: a call of the gated operation made when the timestamp recorded for
\* its key is within ttl of the current time invokes the underlying operation
\* zero times, calls onResult zero times, emits no cache-set event, and
\* resolves.
C4_FreshCallIsFree ==
    \A c \in Made :
        (Gated(c) /\ WithinTtl(c)) =>
            /\ calls[c].op = NoPromise
            /\ calls[c].gate = Resolved(Undefined)
            /\ ~AnyEventBy(c)

C4_Witness ==
    \E c \in Made :
        /\ Gated(c) /\ WithinTtl(c) /\ AgeAtCall(c) = cfg.ttl
        /\ calls[c].gate = Resolved(Undefined)
        /\ now > calls[c].tcall

\* C5: a call of the gated operation made when no timestamp is recorded for
\* its key, or the recorded one is older than ttl, invokes the underlying
\* operation and, once that resolved with v and the then callback has run,
\* has called onResult exactly once with v and emitted exactly one cache-set
\* event carrying the key and a timestamp not earlier than the call.
C5_MissRecordsOnce ==
    \A c \in Made :
        (Gated(c) /\ (~Recorded(c) \/ AgeAtCall(c) > cfg.ttl)) =>
            /\ calls[c].op # NoPromise
            /\ (calls[c].op.st = "resolved" /\ calls[c].gatePc \in {"threw", "done"}) =>
                  /\ Cardinality(EventsBy(c, calls[c].gkey, RECEIVE)) = 1
                  /\ \A i \in EventsBy(c, calls[c].gkey, RECEIVE) :
                        events[calls[c].gkey][i].val = calls[c].op.val
                  /\ Cardinality(EventsBy(c, calls[c].gkey, CACHE_SET)) = 1
                  /\ \A i \in EventsBy(c, calls[c].gkey, CACHE_SET) :
                        /\ events[calls[c].gkey][i].key = calls[c].gkey
                        /\ events[calls[c].gkey][i].ts >= calls[c].tcall

\* C6: with ttl zero or negative, every call of the gated operation invokes
\* the underlying operation, whatever timestamp is recorded for the key.
C6_NonPositiveTtlAlwaysInvokes ==
    \A c \in Made :
        (Gated(c) /\ cfg.ttl <= 0) => calls[c].op # NoPromise

\* C6 (amended): with a negative ttl every call of the gated operation invokes
\* the underlying operation; with ttl zero every call invokes it except when
\* the recorded timestamp equals the current time, which is a cache hit.
C6_NonPositiveTtlInvokesUnlessAgeZero ==
    \A c \in Made :
        (Gated(c) /\ cfg.ttl <= 0) =>
            (calls[c].op = NoPromise
                <=> (cfg.ttl = 0 /\ Recorded(c) /\ AgeAtCall(c) = 0))

C6_Witness ==
    \E c, d \in Made :
        /\ Gated(c) /\ Gated(d) /\ cfg.ttl = 0
        /\ Recorded(c) /\ AgeAtCall(c) = 0 /\ calls[c].gate = Resolved(Undefined)
        /\ Recorded(d) /\ AgeAtCall(d) > 0 /\ calls[d].op # NoPromise

\* the in-flight records the store holds for the request of call c
RecordsOf(c) ==
    { k \in Keys : state.fetching[k].h = ReqHandle(c) \/ state.requestCache[k].h = ReqHandle(c) }

\* C7: the in-flight record of an execution is gone from the store once the
\* execution has settled and its callback has run, on failure as on success.
C7_RecordRemovedOnSettle ==
    \A c \in Made :
        (Initiator(c) /\ CallbacksRan(c)) => RecordsOf(c) = {}

\* C8: when the underlying operation of a deduplicated call rejected with e
\* and the catch callback has run, exactly one request-error event carrying
\* (k, e) and no request-end event was emitted for it, and the outcome of the
\* call is rejected with e.
C8_ErrorEventAndRejection ==
    \A c \in Made :
        (Initiator(c) /\ calls[c].op.st = "rejected" /\ CallbacksRan(c)) =>
            /\ Cardinality(EventsBy(c, calls[c].key, ERROR_REQUEST)) = 1
            /\ \A i \in EventsBy(c, calls[c].key, ERROR_REQUEST) :
                  events[calls[c].key][i].val = calls[c].op.val
            /\ EventsBy(c, calls[c].key, END_REQUEST) = {}
            /\ calls[c].out = Rejected(calls[c].op.val)

\* C9: a call of the deduplicated operation made while the store holds an
\* in-flight outcome handle for its key invokes nothing, emits no event and
\* settles as that outcome settles.
C9_AttachesToExisting ==
    \A c \in Made :
        (Deduplicated(c) /\ calls[c].record.shape # "none") =>
            /\ calls[c].op = NoPromise
            /\ ~AnyEventBy(c)
            /\ Settled(calls[c].out) => calls[c].out = PromiseOf(calls[c].record.h)

\* the begin, end and error events emitted for key k, in order
Lifecycle(k) ==
    SelectSeq(events[k], LAMBDA e : e.type \in {BEGIN_REQUEST, END_REQUEST, ERROR_REQUEST})
Terminal(e) == e.type \in {END_REQUEST, ERROR_REQUEST}

\* C10: for every key the lifecycle events come as begin, then one of end
\* or error of the same execution, then the next begin: no end or error
\* without its begin, never both for one execution, no second begin before
\* the end or error of the previous one.
C10_BeginThenOneTerminal ==
    (IsDedupe /\ cfg.store = "redux") =>
        \A k \in Keys : \A i \in 1..Len(Lifecycle(k)) :
            LET e == Lifecycle(k)[i] IN
            IF Terminal(e)
            THEN i > 1 /\ Lifecycle(k)[i - 1].type = BEGIN_REQUEST
                       /\ Lifecycle(k)[i - 1].by = e.by
            ELSE i = 1 \/ Terminal(Lifecycle(k)[i - 1])

\* the cache-set events emitted for key k, by any call
CacheSets(k) == { i \in 1..Len(events[k]) : events[k][i].type = CACHE_SET }

\* C11: when the underlying operation of a gated call rejected with e and the
\* catch callback has run, the gated call is rejected with exactly e, onResult
\* was not called and no cache-set event was emitted for it; the timestamp
\* recorded for the key is the one the call found, and a later call for the
\* key is a miss again, as long as no other call emits a cache-set for it.
C11_FailurePropagatesUnrecorded ==
    \A c \in Made :
        (Gated(c) /\ calls[c].op.st = "rejected" /\ calls[c].gatePc = "done") =>
            /\ calls[c].gate = Rejected(calls[c].op.val)
            /\ EventsBy(c, calls[c].gkey, RECEIVE) = {}
            /\ EventsBy(c, calls[c].gkey, CACHE_SET) = {}
            /\ CacheSets(calls[c].gkey) = {} =>
                  /\ state.cache[calls[c].gkey] = calls[c].entry
                  /\ \A d \in Made :
                        (d > c /\ Gated(d) /\ calls[d].gkey = calls[c].gkey)
                            => calls[d].op # NoPromise

C11_Witness ==
    \E c, d \in Made :
        /\ Gated(c) /\ calls[c].op = Rejected("error") /\ calls[c].gate = Rejected("error")
        /\ d > c /\ Gated(d) /\ calls[d].gkey = calls[c].gkey /\ calls[d].op # NoPromise

\* C12: applying cached or fetching to a function that carries no KEY throws
\* at that moment: the step yields no wrapped function, reads no state,
\* dispatches nothing and invokes nothing, and nothing can be called after it.
C12_MissingKeyFailsAtWrapTime ==
    [][ /\ ((Composing("cached") \/ Composing("fetching")) /\ fn.KEY = "none"
             /\ stage' = stage + 1)
            => /\ built' = "threw"
               /\ UNCHANGED <<fn, state, events, calls, nCalls>>
        /\ built = "threw"
            => /\ built' = "threw"
               /\ UNCHANGED <<fn, state, events, calls, nCalls>> ]_vars

C12_Witness ==
    /\ built = "threw"
    /\ fn.KEY = "none"
    /\ cfg.pipeline[stage] \in {"cached", "fetching"}
    /\ nCalls = 0
    /\ now > 1

\* C13: the function key(keyFn) returns for an operation carries keyFn as its
\* KEY and is otherwise the operation: no decorator closure of cached or
\* fetching is around it.
C13_KeyCarriesKeyFn ==
    (stage = 1 /\ cfg.pipeline[1] = "key") =>
        /\ fn.KEY = "keyFn"
        /\ fn.layers = << >>

\* the promise call c returned, and the promise it depends on: the underlying
\* operation it started, or the in-flight promise it was resolved with
Outcome(c) == IF calls[c].dedPc # "none" THEN calls[c].out ELSE calls[c].gate
Awaited(c) == IF calls[c].target # NoHandle THEN PromiseOf(calls[c].target) ELSE calls[c].op
\* something is still to happen for call c: what it waits for has not settled,
\* or one of its callbacks is due
CanProgress(c) ==
    \/ Awaited(c) = Pending
    \/ ENABLED CachedThen(c)
    \/ ENABLED CachedCatch(c)
    \/ ENABLED FetchingThen(c)
    \/ ENABLED FetchingCatch(c)
    \/ ENABLED FetchingAttached(c)

\* C14: no call stays pending once the operation it waits for has settled and
\* its callbacks have run, and a call that is rejected is rejected with the
\* reason the operation it waited for was rejected with.
C14_EveryCallSettles ==
    \A c \in Made :
        /\ Outcome(c) = Pending => CanProgress(c)
        /\ Outcome(c).st = "rejected" => Outcome(c) = Awaited(c)

\* C15: the key a gated call looks up, and the key its cache-set event
\* carries, is what the key function handed to key() returns for the
\* arguments of the call after dispatch and getState.
C15_KeyIsKeyFnOfArgs ==
    \A c \in Made :
        Gated(c) =>
            /\ calls[c].gkey = ApplyKey("keyFn", calls[c].arg)
            /\ \A i \in EventsBy(c, calls[c].gkey, CACHE_SET) :
                  events[calls[c].gkey][i].key = ApplyKey("keyFn", calls[c].arg)

\* C16: a gated call that is resolved is resolved with undefined, whether it
\* found a fresh timestamp or invoked the operation; the value the operation
\* resolved with is in the receive event and not in the outcome of the call.
C16_ResolvesWithUndefined ==
    \A c \in Made :
        (Gated(c) /\ calls[c].gate.st = "resolved") =>
            /\ calls[c].gate = Resolved(Undefined)
            /\ calls[c].op # NoPromise =>
                  \E i \in EventsBy(c, calls[c].gkey, RECEIVE) :
                      events[calls[c].gkey][i].val = calls[c].op.val

C16_Witness ==
    \E c, d \in Made :
        /\ Gated(c) /\ calls[c].op = Resolved("hotdogs")
        /\ calls[c].gate = Resolved(Undefined)
        /\ Gated(d) /\ calls[d].op = NoPromise /\ calls[d].gate = Resolved(Undefined)

\* C17: the pipeline key -> cached -> fetching yields an operation, and a
\* call of it whose key has a fresh timestamp and no in-flight record invokes
\* nothing, emits no event and leaves no in-flight record.
C17_FreshCallThroughDedupeIsFree ==
    (cfg.pipeline = <<"key", "cached", "fetching">> /\ stage = 3) =>
        /\ built = "ok"
        /\ \A c \in Made :
              (Deduplicated(c) /\ WithinTtl(c) /\ calls[c].record.shape = "none") =>
                  /\ calls[c].op = NoPromise
                  /\ ~AnyEventBy(c)
                  /\ RecordsOf(c) = {}

\* C18: the step in which a deduplicated call finds no in-flight record for
\* its key is the step in which the underlying operation is started and the
\* begin event carrying the key and the promise of that execution is handed
\* to dispatch, and recorded by the reducers: the execution is still pending
\* and no other call has been made when the begin event is on record.
C18_LookupStartBeginInOneStep ==
    [][ (/\ IsDedupe
         /\ nCalls' = nCalls + 1
         /\ selectInflight(state, calls'[nCalls'].key) = NoHandle)
        => LET c == nCalls'
               k == calls'[c].key
               last == events'[k][Len(events'[k])]
           IN /\ calls'[c].op = Pending \/ calls'[c].gatePc = "done"
              /\ Len(events'[k]) = Len(events[k]) + 1
              /\ last.type = BEGIN_REQUEST /\ last.by = c
              /\ last.key = k /\ last.h = ReqHandle(c)
              /\ cfg.store = "redux" => state'.fetching[k] = PromiseRecord(ReqHandle(c)) ]_vars

C18_Witness ==
    \E c \in Made :
        /\ Initiator(c) /\ calls[c].op = Pending /\ cfg.store = "redux"
        /\ EventsBy(c, calls[c].key, BEGIN_REQUEST) = {Len(events[calls[c].key])}
        /\ state.fetching[calls[c].key] = PromiseRecord(ReqHandle(c))

\* C19: a gated call finds its key fresh exactly when a timestamp is recorded
\* for it and the age, the current time minus that timestamp, is at most ttl:
\* an age equal to ttl is a hit, a greater one a miss, and without a recorded
\* timestamp the call is a miss whatever ttl is.
C19_FreshIffAgeAtMostTtl ==
    \A c \in Made :
        Gated(c) =>
            /\ Recorded(c) => (calls[c].op = NoPromise <=> AgeAtCall(c) <= cfg.ttl)
            /\ ~Recorded(c) => calls[c].op # NoPromise

C19_Witness ==
    \E c, d \in Made :
        /\ Gated(c) /\ Recorded(c) /\ AgeAtCall(c) = cfg.ttl /\ cfg.ttl = 1
        /\ calls[c].op = NoPromise
        /\ Gated(d) /\ ~Recorded(d) /\ calls[d].tcall <= cfg.ttl /\ calls[d].op # NoPromise

\* C20: once the reducers have recorded a cache-set event for key k with
\* timestamp t, the default ttl selector returns t for k in the state they
\* produced (t being the latest recorded for k), so that the key is fresh at
\* every time within ttl of t.
C20_SelectorReadsWhatReducerWrote ==
    \A k \in Keys :
        CacheSets(k) # {} =>
            LET t == events[k][CHOOSE i \in CacheSets(k) :
                                 \A j \in CacheSets(k) : j <= i].ts
            IN /\ cacheTtlSelector(state, k) = t
               /\ \A ttl \in TTLs, n \in t..(MaxTime + 1) :
                     n - t <= ttl => ~expired(cacheTtlSelector(state, k), ttl, n)

\* C21: when the reducers record a request-begin event for key k with promise
\* h, the default in-flight selector returns h for k in the state they
\* produce, and when they record a request-end event for k it returns nothing.
C21_SelectorFindsWhatReducerWrote ==
    [][ \A action \in StoreActions :
          (ApplyRootReducer(action) \/ ApplyFetchingReducer(action)) =>
              /\ action.type = BEGIN_REQUEST
                    => selectInflight(state', action.key) = action.h
              /\ action.type = END_REQUEST
                    => selectInflight(state', action.key) = NoHandle ]_vars

\* the places in the record of key k of the events dispatched in this step
Dispatched(k) == (Len(events[k]) + 1)..Len(events'[k])

\* C22: a step changes the cache entry of a key only by recording a cache-set
\* event for that key, and a cache-set event is dispatched only by the then
\* callback of a gated call whose operation resolved; cache hits, failed
\* operations, attached calls and begin, end and error events leave every
\* cache entry as it was.
C22_CacheChangesOnlyOnGateSuccess ==
    [][ \A k \in Keys :
          /\ state'.cache[k] # state.cache[k] =>
                \E i \in Dispatched(k) :
                    events'[k][i].type = CACHE_SET /\ events'[k][i].key = k
          /\ \A i \in Dispatched(k) :
                events'[k][i].type = CACHE_SET =>
                    LET c == events'[k][i].by
                    IN /\ Gated(c)
                       /\ calls[c].gatePc = "wait"
                       /\ calls[c].op.st = "resolved"
                       /\ calls[c].gkey = k ]_vars

C22_Witness ==
    \E c, d \in Made :
        /\ Gated(c) /\ calls[c].op.st = "resolved"
        /\ EventsBy(c, calls[c].gkey, CACHE_SET) # {}
        /\ Gated(d) /\ calls[d].gatePc = "done"
        /\ calls[d].op = NoPromise \/ calls[d].op.st = "rejected"
        /\ EventsBy(d, calls[d].gkey, CACHE_SET) = {}

\* C23: the function cached returns and the function fetching returns carry
\* the KEY of the function they wrapped, so that no stage of a pipeline that
\* starts with key throws and every stage derives its key with the key
\* function handed to key.
C23_StagesKeepTheKey ==
    /\ built # "threw"
    /\ \A i \in 1..Len(fn.layers) : fn.KEY = fn.layers[i].KEY
    /\ \A i \in 1..Len(fn.layers) : fn.layers[i].KEY = "keyFn"

\* C24: the underlying operation is invoked only in the step of a call, for
\* that call and once: an operation that settled is not started again, and
\* no other step (time passing, a callback, a record being removed) starts
\* one, so there are never more invocations than calls.
C24_InvokedOnlyByCalls ==
    [][ /\ \A c \in CallIds :
              /\ (calls[c].op = NoPromise /\ calls'[c].op # NoPromise)
                    => (c = nCalls + 1 /\ nCalls' = c /\ calls'[c].tcall = now)
              /\ Settled(calls[c].op) => calls'[c].op = calls[c].op
              /\ calls[c].op = Pending => calls'[c].op # NoPromise
        /\ Cardinality({ c \in CallIds : calls'[c].op # NoPromise }) <= nCalls' ]_vars

C24_Witness ==
    \E c, d \in Made :
        /\ calls[c].op.st = "rejected"
        /\ calls[c].gatePc = "done" \/ calls[c].dedPc = "done"
        /\ Gated(d) /\ Recorded(d) /\ calls[d].op = NoPromise
        /\ now - calls[d].entry.ts > cfg.ttl

\* two gated calls for one key whose operations resolved and whose then
\* callbacks have run: onResult was called and a cache-set emitted for each
BothRecorded ==
    \A c, d \in Made :
        (/\ c < d /\ Gated(c) /\ Gated(d) /\ calls[c].gkey = calls[d].gkey
         /\ calls[c].op.st = "resolved" /\ calls[c].gatePc \in {"threw", "done"}
         /\ calls[d].op.st = "resolved" /\ calls[d].gatePc \in {"threw", "done"})
        => /\ Cardinality(EventsBy(c, calls[c].gkey, RECEIVE)
                             \cup EventsBy(d, calls[c].gkey, RECEIVE)) = 2
           /\ Cardinality(EventsBy(c, calls[c].gkey, CACHE_SET)
                             \cup EventsBy(d, calls[c].gkey, CACHE_SET)) = 2

\* C25: without fetching, a call of the gated operation made for a key while
\* the operation an earlier call invoked for that key is pending invokes the
\* operation again, and when both operations resolved and the callbacks have
\* run, onResult was called twice and two cache-set events were emitted.
C25_GateAloneInvokesTwice ==
    [][ /\ (/\ built = "ok" /\ Top.kind = "cached"
             /\ nCalls' = nCalls + 1
             /\ \E c \in Made : /\ calls[c].gkey = calls'[nCalls'].gkey
                                 /\ calls[c].op = Pending)
            => calls'[nCalls'].op = Pending
        /\ BothRecorded' ]_vars

\* the types of the events call c dispatched for key k, in order
TypesBy(c, k) ==
    LET own == SelectSeq(events[k], LAMBDA e : e.by = c)
    IN [i \in 1..Len(own) |-> own[i].type]

\* C26: the pipeline key -> cached -> fetching yields an operation, and the
\* events of a call of it whose operation resolved and whose callbacks have
\* run are, in this order: begin, onResult, cache-set, end.
C26_BeginResultCacheSetEnd ==
    (cfg.pipeline = <<"key", "cached", "fetching">> /\ stage = 3) =>
        /\ built = "ok"
        /\ \A c \in Made :
              (Initiator(c) /\ calls[c].op.st = "resolved" /\ CallbacksRan(c)) =>
                  TypesBy(c, calls[c].key)
                      = <<BEGIN_REQUEST, RECEIVE, CACHE_SET, END_REQUEST>>

\* C27: a step changes the cache entry, the in-flight record and the error
\* entry of a key only when it dispatches an event for that key, and a call
\* is attached to an in-flight promise, or found fresh, only on account of
\* what the store holds under the key of the call itself.
C27_KeysAreIndependent ==
    [][ /\ \A k \in Keys :
              (\/ state'.cache[k] # state.cache[k]
               \/ state'.fetching[k] # state.fetching[k]
               \/ state'.requestCache[k] # state.requestCache[k]
               \/ state'.error[k] # state.error[k])
              => \E i \in Dispatched(k) : events'[k][i].key = k
        /\ nCalls' = nCalls + 1 =>
              LET r == calls'[nCalls']
              IN /\ r.key = ApplyKey(Top.KEY, r.arg)
                 /\ r.dedPc = "attached" =>
                       /\ state.requestCache[r.key].shape # "none"
                       /\ r.target = state.requestCache[r.key].h
                 /\ (r.gatePc = "done" /\ r.op = NoPromise) =>
                       /\ state.cache[r.gkey].shape # "none"
                       /\ now - state.cache[r.gkey].ts <= cfg.ttl ]_vars

C27_Witness ==
    \E c \in Made :
        /\ Initiator(c) /\ calls[c].key = "k2" /\ calls[c].op = Pending
        /\ state.requestCache["k1"].shape = "object"
        /\ state.requestCache["k2"].shape = "none"

\* C28: the error entry of a key changes only when a request-error event for
\* that key is recorded, and then to the error of that event; begin, end and
\* cache-set events recorded later, a successful execution for the key
\* included, leave it as it is and no event removes it.
C28_ErrorEntryStays ==
    [][ \A k \in Keys :
          /\ state'.error[k] # state.error[k] =>
                \E i \in Dispatched(k) :
                    /\ events'[k][i].type = ERROR_REQUEST
                    /\ events'[k][i].key = k
                    /\ state'.error[k] = events'[k][i].val
          /\ state.error[k] # Undefined => state'.error[k] # Undefined ]_vars

C28_Witness ==
    \E k \in Keys :
        /\ Len(events[k]) = 3
        /\ events[k][1].type = ERROR_REQUEST /\ events[k][1].val = "error"
        /\ events[k][2].type = BEGIN_REQUEST
        /\ events[k][3].type = END_REQUEST
        /\ state.error[k] = "error"
        /\ state.fetching[k] = NoRecord

====
